---- MODULE Spec2Model ----
(***************************************************************************)
(* Model of the P9ML prime factorization engine                            *)
(* (p9ml_prime_factorization.c) and of its Lua binding (lua_p9ml_prime.c): *)
(* isqrt, the factorization cache, the trial-division factorizer, the      *)
(* wheel factorizer, the batch and precompute drivers.                     *)
(***************************************************************************)
EXTENDS Integers, Sequences, FiniteSets, TLC

\* ------------------------------------------------------------------------
\* Bounds of the model
\* ------------------------------------------------------------------------

\* Width of the unsigned word.  uint32_t in the source; the arithmetic of
\* the model is done modulo 2^WordBits.
WordBits == 16

\* Largest number handed to the factorizers when they are checked as pure
\* functions (above 73*73, so that the odd-candidate loop divides).
MaxN == 5400

\* Longest input sequence given to batch_factorize.
MaxBatch == 2

\* Free slots of the warm cache the serial and the concurrent models may
\* start from.
FreeSlots == 2

\* Capacity of the cache: 1000 in the source, scaled down to just above the
\* 27 entries precompute_common_dimensions inserts, so that the reachable
\* caches include the full ones.
MAX_CACHE_SIZE == 30

\* First number of the run of numbers whose factorizations fill the warm
\* cache.
FillBase == 10000

\* ------------------------------------------------------------------------
\* Program constants
\* ------------------------------------------------------------------------

MAX_FACTORS == 64

small_primes ==
    <<2, 3, 5, 7, 11, 13, 17, 19, 23, 29, 31, 37, 41, 43, 47, 53, 59, 61, 67, 71>>

num_small_primes == Len(small_primes)

wheel == <<4, 6, 10, 12, 16, 18, 22, 24>>

wheel_size == 8

common_dims ==
    <<1, 2, 3, 4, 8, 16, 32, 64, 128, 256, 512, 1024, 2048, 4096,
      224, 299, 331, 448, 640, 768, 896, 1280, 1920,
      7, 14, 28, 56, 112>>

num_common == Len(common_dims)

\* ------------------------------------------------------------------------
\* Unsigned arithmetic
\* ------------------------------------------------------------------------

UINT_MOD == 2 ^ WordBits

UINT_MAX == UINT_MOD - 1

\* The value an unsigned expression takes: reduced modulo 2^WordBits.
U32(x) == x % UINT_MOD

\* uint8_t factor_count of a cache entry.
U8(x) == x % 256

\* What an unsigned division by zero yields on the targets that do not
\* trap (0 on ARM, all ones on RISC-V); x86 raises SIGFPE instead.
DivByZeroQuotients == {0, UINT_MAX}

\* ------------------------------------------------------------------------
\* isqrt
\* ------------------------------------------------------------------------

\* An outcome of a call of isqrt: the value returned unless the call
\* trapped; wrapped and div0 record that x + 1 or x + n/x was reduced
\* modulo 2^WordBits, and that n/x was evaluated with x = 0.
IsqrtOutcome(v, trap, wrapped, div0) ==
    [value |-> v, trap |-> trap, wrapped |-> wrapped, div0 |-> div0]

RECURSIVE isqrt_loop(_, _, _, _, _)
\* while (y < x) { x = y; y = (x + n / x) / 2; }  return x;
isqrt_loop(n, x, y, wrapped, div0) ==
    IF y < x
    THEN IF y = 0
         THEN {IsqrtOutcome(0, TRUE, wrapped, TRUE)} \cup
              UNION {isqrt_loop(n, y, U32(y + q) \div 2, wrapped, TRUE) :
                        q \in DivByZeroQuotients}
         ELSE isqrt_loop(n, y, U32(y + n \div y) \div 2,
                         wrapped \/ y + n \div y > UINT_MAX, div0)
    ELSE {IsqrtOutcome(x, FALSE, wrapped, div0)}

\* The outcomes of isqrt(n): one, unless the call divides by zero.
isqrt_outcomes(n) ==
    IF n < 2
    THEN {IsqrtOutcome(n, FALSE, FALSE, FALSE)}
    ELSE isqrt_loop(n, n, U32(n + 1) \div 2, n + 1 > UINT_MAX, FALSE)

\* isqrt(n) as the factorizers use it.  They call it on a cofactor from
\* which 2, 3 and 5 were divided out, never on UINT_MAX (3 divides 2^32 - 1;
\* the numbers factored in the model stay below UINT_MAX), so the call has a
\* single outcome.
isqrt(n) == (CHOOSE o \in isqrt_outcomes(n) : TRUE).value

\* ------------------------------------------------------------------------
\* Factorization cache
\* ------------------------------------------------------------------------

\* static FactorCache factor_cache[MAX_CACHE_SIZE], zero-initialised; the
\* factors array of an entry is modelled by its first factor_count elements.
ZeroEntry == [number |-> 0, factor_count |-> 0, factors |-> <<>>]

CacheIndex == 0 .. MAX_CACHE_SIZE - 1

EmptyCache == [i \in CacheIndex |-> ZeroEntry]

\* cache_scan with the loop started at i = 1.
cache_scan_from_one(cache, size, n) ==
    LET matches == {i \in 1 .. size - 1 : cache[i].number = n}
    IN  IF matches # {}
        THEN [found |-> TRUE,
              index |-> CHOOSE i \in matches : \A j \in matches : i <= j]
        ELSE [found |-> FALSE, index |-> -1]

\* for (i = 0; i < cache_size; i++) if (factor_cache[i].number == n) ...:
\* the scan stops at the lowest index below size whose entry holds n.
cache_scan(cache, size, n) ==
    LET matches == {i \in 0 .. size - 1 : cache[i].number = n}
    IN  IF matches # {}
        THEN [found |-> TRUE,
              index |-> CHOOSE i \in matches : \A j \in matches : i <= j]
        ELSE [found |-> FALSE, index |-> -1]

\* check_cache that reports every number as absent.
check_cache_blind(cache, size, n) == [found |-> FALSE, factors |-> <<>>]

\* check_cache: the first entry holding n, copied out.
check_cache(cache, size, n) ==
    LET s == cache_scan(cache, size, n)
    IN  IF s.found
        THEN [found |-> TRUE,
              factors |-> SubSeq(cache[s.index].factors, 1,
                                 cache[s.index].factor_count)]
        ELSE [found |-> FALSE, factors |-> <<>>]

\* The early return with > in place of >=.
add_to_cache_rejects_late(size, factor_count) ==
    size > MAX_CACHE_SIZE \/ factor_count > MAX_FACTORS

\* The early return of add_to_cache.
add_to_cache_rejects(size, factor_count) ==
    size >= MAX_CACHE_SIZE \/ factor_count >= MAX_FACTORS

\* The entry written with one factor too few.
cache_entry_short(n, factors) ==
    LET k == IF Len(factors) > 0 THEN Len(factors) - 1 ELSE 0
    IN  [number |-> n, factor_count |-> U8(k),
         factors |-> SubSeq(factors, 1, k)]

\* The entry add_to_cache writes.
cache_entry(n, factors) ==
    [number |-> n, factor_count |-> U8(Len(factors)), factors |-> factors]

\* add_to_cache run without interruption.
add_to_cache(cache, size, n, factors) ==
    IF add_to_cache_rejects(size, Len(factors))
    THEN [factor_cache |-> cache, cache_size |-> size]
    ELSE [factor_cache |-> [cache EXCEPT ![size] = cache_entry(n, factors)],
          cache_size |-> size + 1]

\* ------------------------------------------------------------------------
\* Trial-division factorizer
\* ------------------------------------------------------------------------

RECURSIVE strip_prime(_, _, _)
\* while (n % p == 0) { factors[factor_count++] = p; n /= p; }
strip_prime(n, p, factors) ==
    IF n % p = 0
    THEN strip_prime(n \div p, p, Append(factors, p))
    ELSE [n |-> n, factors |-> factors]

RECURSIVE small_prime_pass(_, _, _)
\* The loop over small_primes, i being the 1-based position in the table.
small_prime_pass(i, n, factors) ==
    IF i > num_small_primes
    THEN [n |-> n, factors |-> factors]
    ELSE LET p == small_primes[i]
             s == strip_prime(n, p, factors)
         IN  IF s.n = 1
             THEN s
             ELSE IF U32(p * p) > s.n
                  THEN [n |-> s.n,
                        factors |-> IF s.n > 1 THEN Append(s.factors, s.n)
                                               ELSE s.factors]
                  ELSE small_prime_pass(i + 1, s.n, s.factors)

RECURSIVE divide_out(_, _, _, _)
\* while (n % candidate == 0) { factors[factor_count++] = candidate;
\*                              n /= candidate; sqrt_n = isqrt(n); }
divide_out(n, candidate, sqrt_n, factors) ==
    IF n % candidate = 0
    THEN divide_out(n \div candidate, candidate, isqrt(n \div candidate),
                    Append(factors, candidate))
    ELSE [n |-> n, sqrt_n |-> sqrt_n, factors |-> factors]

RECURSIVE odd_trial_division(_, _, _, _)
\* while (candidate <= sqrt_n) { divide out candidate; candidate += 2; }
odd_trial_division(n, candidate, sqrt_n, factors) ==
    IF candidate <= sqrt_n
    THEN LET d == divide_out(n, candidate, sqrt_n, factors)
         IN  odd_trial_division(d.n, U32(candidate + 2), d.sqrt_n, d.factors)
    ELSE [n |-> n, factors |-> factors]

\* The block "if (n > 1) { ... }" that follows the small-prime loop.
remaining_factors(n, factors) ==
    IF n > 1
    THEN LET max_small == small_primes[num_small_primes]
             first == U32(max_small + 2)
             candidate == IF first % 2 = 0 THEN U32(first + 1) ELSE first
             t == IF U32(max_small * max_small) <= n
                  THEN odd_trial_division(n, candidate, isqrt(n), factors)
                  ELSE [n |-> n, factors |-> factors]
         IN  IF t.n > 1 THEN Append(t.factors, t.n) ELSE t.factors
    ELSE factors

\* The factors prime_factorize_optimized computes for n >= 2 after a cache
\* miss.
trial_factors(n) ==
    LET s == small_prime_pass(1, n, <<>>)
    IN  remaining_factors(s.n, s.factors)

\* prime_factorize_optimized(n, factors) on the cache (cache, size): the
\* sequence left in factors[0 .. count-1] and the cache afterwards.
prime_factorize_optimized(cache, size, n) ==
    IF n <= 1
    THEN [factors |-> <<>>, hit |-> FALSE,
          factor_cache |-> cache, cache_size |-> size]
    ELSE LET c == check_cache(cache, size, n)
         IN  IF c.found
             THEN [factors |-> c.factors, hit |-> TRUE,
                   factor_cache |-> cache, cache_size |-> size]
             ELSE LET original_n == n
                      fs == trial_factors(n)
                      a == add_to_cache(cache, size, original_n, fs)
                  IN  [factors |-> fs, hit |-> FALSE,
                       factor_cache |-> a.factor_cache,
                       cache_size |-> a.cache_size]

\* ------------------------------------------------------------------------
\* Wheel factorizer
\* ------------------------------------------------------------------------

RECURSIVE wheel_walk(_, _, _, _, _)
\* while (candidate <= sqrt_n) { divide out candidate;
\*     candidate += wheel[wheel_pos]; wheel_pos = (wheel_pos + 1) % 8; }
wheel_walk(n, candidate, wheel_pos, sqrt_n, factors) ==
    IF candidate <= sqrt_n
    THEN LET d == divide_out(n, candidate, sqrt_n, factors)
         IN  wheel_walk(d.n, U32(candidate + wheel[wheel_pos + 1]),
                        (wheel_pos + 1) % wheel_size, d.sqrt_n, d.factors)
    ELSE [n |-> n, factors |-> factors]

wheel_factorize(n) ==
    IF n <= 1
    THEN <<>>
    ELSE LET s2 == strip_prime(n, 2, <<>>)
             s3 == strip_prime(s2.n, 3, s2.factors)
             s5 == strip_prime(s3.n, 5, s3.factors)
         IN  IF s5.n <= 1
             THEN s5.factors
             ELSE LET w == wheel_walk(s5.n, 7, 0, isqrt(s5.n), s5.factors)
                  IN  IF w.n > 1 THEN Append(w.factors, w.n) ELSE w.factors

\* ------------------------------------------------------------------------
\* Batch and precompute drivers
\* ------------------------------------------------------------------------

RECURSIVE batch_loop(_, _, _, _, _)
\* for (i = 0; i < n; i++) result[i + 1] = factors of numbers[i]; i is the
\* 1-based position.
batch_loop(cache, size, numbers, i, results) ==
    IF i > Len(numbers)
    THEN [results |-> results, factor_cache |-> cache, cache_size |-> size]
    ELSE LET r == prime_factorize_optimized(cache, size, numbers[i])
         IN  batch_loop(r.factor_cache, r.cache_size, numbers, i + 1,
                        Append(results, r.factors))

\* The batch loop started at the second input.
batch_from_second(cache, size, numbers) ==
    batch_loop(cache, size, numbers, 2, <<>>)

\* lua_batch_prime_factorize (and batch_prime_factorize_avx2, the same loop
\* over caller-supplied buffers).
batch_prime_factorize(cache, size, numbers) ==
    batch_loop(cache, size, numbers, 1, <<>>)

RECURSIVE precompute_loop_short(_, _, _)
\* The precompute loop that stops before the last entry of common_dims.
precompute_loop_short(cache, size, i) ==
    IF i < num_common /\ size < MAX_CACHE_SIZE
    THEN LET r == prime_factorize_optimized(cache, size, common_dims[i])
         IN  precompute_loop_short(r.factor_cache, r.cache_size, i + 1)
    ELSE [factor_cache |-> cache, cache_size |-> size]

RECURSIVE precompute_loop(_, _, _)
\* for (i = 0; i < num_common && cache_size < MAX_CACHE_SIZE; i++)
precompute_loop(cache, size, i) ==
    IF i <= num_common /\ size < MAX_CACHE_SIZE
    THEN LET r == prime_factorize_optimized(cache, size, common_dims[i])
         IN  precompute_loop(r.factor_cache, r.cache_size, i + 1)
    ELSE [factor_cache |-> cache, cache_size |-> size]

precompute_common_dimensions(cache, size) == precompute_loop(cache, size, 1)

\* clear_factorization_cache
clear_factorization_cache == [factor_cache |-> EmptyCache, cache_size |-> 0]

\* get_cache_stats
get_cache_stats(size) == [size |-> size, max_size |-> MAX_CACHE_SIZE]

\* ------------------------------------------------------------------------
\* State
\* ------------------------------------------------------------------------

VARIABLES
    factor_cache,   \* static FactorCache factor_cache[MAX_CACHE_SIZE]
    cache_size,     \* static int cache_size
    overrun,        \* entries stored past the end of factor_cache
    op,             \* the last call made: its name,
    arg,            \*   its argument,
    ret,            \*   what it returned,
    hit,            \*   and whether check_cache answered it
    wheel_ret,      \* what wheel_factorize(arg) returned
    called,         \* the pure functions applied to arg so far
    pc,             \* per thread: the position inside prime_factorize_optimized
    tn,             \* per thread: the argument n (original_n)
    tfactors,       \* per thread: the factors buffer of the caller
    treg,           \* per thread: cache_size as loaded by add_to_cache
    overlap         \* two calls have been in progress at the same time

vars == <<factor_cache, cache_size, overrun, op, arg, ret, hit, wheel_ret,
          called, pc, tn, tfactors, treg, overlap>>

cacheVars == <<factor_cache, cache_size, overrun>>

callVars == <<op, arg, ret, hit>>

threadVars == <<pc, tn, tfactors, treg, overlap>>

Threads == {1, 2}

\* The numbers given to factorize: 0 and 1 (not factored), 3 (one of
\* common_dims), 5 and 12 (not among them).
Inputs == {0, 1, 3, 5, 12}

\* The numbers the sequences given to batch_factorize are made of.
BatchValues == {1, 3, 12}

BatchInputs == UNION {[1 .. k -> BatchValues] : k \in 0 .. MaxBatch}

\* The cache earlier calls factorize(FillBase), factorize(FillBase + 1), ...
\* leave behind: k entries, in the order of the calls.
WarmCache(k) ==
    [i \in CacheIndex |->
        IF i < k THEN cache_entry(FillBase + i, trial_factors(FillBase + i))
                 ELSE ZeroEntry]

ThreadsIdle ==
    /\ pc = [t \in Threads |-> "idle"]
    /\ tn = [t \in Threads |-> 0]
    /\ tfactors = [t \in Threads |-> <<>>]
    /\ treg = [t \in Threads |-> 0]
    /\ overlap = FALSE

NoCall ==
    /\ op = "start"
    /\ ret = <<>>
    /\ hit = FALSE
    /\ wheel_ret = <<>>
    /\ called = {}

\* ------------------------------------------------------------------------
\* The API, called from one thread (lua_p9ml_prime.c)
\* ------------------------------------------------------------------------

\* After the process started, or after earlier calls filled the cache up
\* to FreeSlots free entries.
Init ==
    /\ cache_size \in {0, MAX_CACHE_SIZE - FreeSlots}
    /\ factor_cache = WarmCache(cache_size)
    /\ overrun = <<>>
    /\ arg = 0
    /\ NoCall
    /\ ThreadsIdle

\* factorize(n): lua_prime_factorize_optimized
Factorize(n) ==
    LET r == prime_factorize_optimized(factor_cache, cache_size, n)
    IN  /\ factor_cache' = r.factor_cache
        /\ cache_size' = r.cache_size
        /\ op' = "factorize"
        /\ arg' = n
        /\ ret' = r.factors
        /\ hit' = r.hit
        /\ UNCHANGED <<overrun, wheel_ret, called, threadVars>>

\* batch_factorize(xs): lua_batch_prime_factorize.  For the empty table the
\* array numbers[n] has no element and neither loop runs.
BatchFactorize(xs) ==
    LET r == batch_prime_factorize(factor_cache, cache_size, xs)
    IN  /\ factor_cache' = r.factor_cache
        /\ cache_size' = r.cache_size
        /\ op' = "batch_factorize"
        /\ arg' = xs
        /\ ret' = r.results
        /\ hit' = FALSE
        /\ UNCHANGED <<overrun, wheel_ret, called, threadVars>>

\* precompute_common(): lua_precompute_common_dimensions, which returns
\* cache_size.
PrecomputeCommon ==
    LET r == precompute_common_dimensions(factor_cache, cache_size)
    IN  /\ factor_cache' = r.factor_cache
        /\ cache_size' = r.cache_size
        /\ op' = "precompute_common"
        /\ arg' = 0
        /\ ret' = r.cache_size
        /\ hit' = FALSE
        /\ UNCHANGED <<overrun, wheel_ret, called, threadVars>>

\* get_cache_stats(): lua_get_cache_stats
GetCacheStats ==
    /\ op' = "get_cache_stats"
    /\ arg' = 0
    /\ ret' = get_cache_stats(cache_size)
    /\ hit' = FALSE
    /\ UNCHANGED <<cacheVars, wheel_ret, called, threadVars>>

\* clear_cache(): lua_clear_cache
ClearCache ==
    /\ factor_cache' = clear_factorization_cache.factor_cache
    /\ cache_size' = clear_factorization_cache.cache_size
    /\ op' = "clear_cache"
    /\ arg' = 0
    /\ ret' = <<>>
    /\ hit' = FALSE
    /\ UNCHANGED <<overrun, wheel_ret, called, threadVars>>

Next ==
    \/ \E n \in Inputs : Factorize(n)
    \/ \E xs \in BatchInputs : BatchFactorize(xs)
    \/ PrecomputeCommon
    \/ GetCacheStats
    \/ ClearCache

Spec == Init /\ [][Next]_vars

\* ------------------------------------------------------------------------
\* The factorizers as pure functions: both applied to one number, the
\* trial-division factorizer on an empty cache
\* ------------------------------------------------------------------------

InitFn ==
    /\ cache_size = 0
    /\ factor_cache = EmptyCache
    /\ overrun = <<>>
    /\ arg \in 0 .. MaxN
    /\ NoCall
    /\ ThreadsIdle

\* prime_factorize_optimized(arg, factors)
FnFactorize ==
    /\ "prime_factorize_optimized" \notin called
    /\ LET r == prime_factorize_optimized(factor_cache, cache_size, arg)
       IN  /\ factor_cache' = r.factor_cache
           /\ cache_size' = r.cache_size
           /\ ret' = r.factors
           /\ hit' = r.hit
    /\ op' = "factorize"
    /\ called' = called \cup {"prime_factorize_optimized"}
    /\ UNCHANGED <<overrun, arg, wheel_ret, threadVars>>

\* wheel_factorize(arg, factors)
FnWheel ==
    /\ "wheel_factorize" \notin called
    /\ wheel_ret' = wheel_factorize(arg)
    /\ called' = called \cup {"wheel_factorize"}
    /\ UNCHANGED <<cacheVars, callVars, threadVars>>

NextFn == FnFactorize \/ FnWheel

SpecFn == InitFn /\ [][NextFn]_vars

\* ------------------------------------------------------------------------
\* isqrt applied to every value of the unsigned word
\* ------------------------------------------------------------------------

InitIsqrt ==
    /\ cache_size = 0
    /\ factor_cache = EmptyCache
    /\ overrun = <<>>
    /\ arg \in 0 .. UINT_MAX
    /\ NoCall
    /\ ThreadsIdle

\* isqrt(arg); a division by zero has the outcomes of isqrt_outcomes.
FnIsqrt ==
    /\ op = "start"
    /\ \E o \in isqrt_outcomes(arg) : ret' = o
    /\ op' = "isqrt"
    /\ called' = {"isqrt"}
    /\ UNCHANGED <<cacheVars, arg, hit, wheel_ret, threadVars>>

NextIsqrt == FnIsqrt

SpecIsqrt == InitIsqrt /\ [][NextIsqrt]_vars

\* ------------------------------------------------------------------------
\* prime_factorize_optimized called from two threads, one call each.  The
\* cache is read and written without synchronisation: the steps of a call
\* are check_cache, then the computation, then the steps of add_to_cache
\* (size check, entry write, cache_size++).  add_to_cache reads cache_size
\* three times; the compiler may keep the first load in a register or load
\* it again, so the entry write and the increment use either value.
\* ------------------------------------------------------------------------

InitConc ==
    /\ cache_size \in {0} \cup {MAX_CACHE_SIZE - f : f \in 1 .. FreeSlots}
    /\ factor_cache = WarmCache(cache_size)
    /\ overrun = <<>>
    /\ arg = 0
    /\ NoCall
    /\ ThreadsIdle

\* A call is in progress in a thread other than t.
OtherInCall(t) == \E u \in Threads \ {t} : pc[u] \notin {"idle", "done"}

\* Thread t calls prime_factorize_optimized(n, factors); n <= 1 returns 0
\* at once.
TCall(t, n) ==
    /\ pc[t] = "idle"
    /\ tn' = [tn EXCEPT ![t] = n]
    /\ pc' = [pc EXCEPT ![t] = IF n <= 1 THEN "done" ELSE "check_cache"]
    /\ overlap' = (overlap \/ (n > 1 /\ OtherInCall(t)))
    /\ UNCHANGED <<cacheVars, callVars, wheel_ret, called, tfactors, treg>>

\* check_cache, and on a miss the computation of the factors.
TCheckCache(t) ==
    /\ pc[t] = "check_cache"
    /\ LET c == check_cache(factor_cache, cache_size, tn[t])
       IN  IF c.found
           THEN /\ tfactors' = [tfactors EXCEPT ![t] = c.factors]
                /\ pc' = [pc EXCEPT ![t] = "done"]
           ELSE /\ tfactors' = [tfactors EXCEPT ![t] = trial_factors(tn[t])]
                /\ pc' = [pc EXCEPT ![t] = "size_check"]
    /\ UNCHANGED <<cacheVars, callVars, wheel_ret, called, tn, treg, overlap>>

\* add_to_cache: if (cache_size >= MAX_CACHE_SIZE || ...) return;
TSizeCheck(t) ==
    /\ pc[t] = "size_check"
    /\ IF add_to_cache_rejects(cache_size, Len(tfactors[t]))
       THEN /\ pc' = [pc EXCEPT ![t] = "done"]
            /\ treg' = treg
       ELSE /\ pc' = [pc EXCEPT ![t] = "write"]
            /\ treg' = [treg EXCEPT ![t] = cache_size]
    /\ UNCHANGED <<cacheVars, callVars, wheel_ret, called, tn, tfactors,
                   overlap>>

\* add_to_cache: the stores into factor_cache[cache_size].
TWrite(t) ==
    /\ pc[t] = "write"
    /\ \E idx \in {treg[t], cache_size} :
          IF idx \in CacheIndex
          THEN /\ factor_cache' =
                     [factor_cache EXCEPT ![idx] = cache_entry(tn[t], tfactors[t])]
               /\ overrun' = overrun
          ELSE /\ overrun' =
                     Append(overrun, [index |-> idx,
                                      entry |-> cache_entry(tn[t], tfactors[t])])
               /\ factor_cache' = factor_cache
    /\ pc' = [pc EXCEPT ![t] = "incr"]
    /\ UNCHANGED <<cache_size, callVars, wheel_ret, called, tn, tfactors, treg,
                   overlap>>

\* add_to_cache: cache_size++;
TIncr(t) ==
    /\ pc[t] = "incr"
    /\ \E v \in {treg[t], cache_size} : cache_size' = v + 1
    /\ pc' = [pc EXCEPT ![t] = "done"]
    /\ UNCHANGED <<factor_cache, overrun, callVars, wheel_ret, called, tn,
                   tfactors, treg, overlap>>

NextConc ==
    \E t \in Threads :
        \/ \E n \in Inputs : TCall(t, n)
        \/ TCheckCache(t)
        \/ TSizeCheck(t)
        \/ TWrite(t)
        \/ TIncr(t)

SpecConc == InitConc /\ [][NextConc]_vars

\* ------------------------------------------------------------------------
\* Properties
\* ------------------------------------------------------------------------

RECURSIVE Product(_)
Product(fs) == IF fs = <<>> THEN 1 ELSE Head(fs) * Product(Tail(fs))

NonDecreasing(fs) == \A i \in 1 .. Len(fs) - 1 : fs[i] <= fs[i + 1]

IsPrime(k) == k >= 2 /\ \A d \in 2 .. k - 1 : d * d > k \/ k % d # 0

Occurrences(fs, v) == Cardinality({i \in 1 .. Len(fs) : fs[i] = v})

Values(fs) == {fs[i] : i \in 1 .. Len(fs)}

SameMultiset(fs, gs) ==
    \A v \in Values(fs) \cup Values(gs) : Occurrences(fs, v) = Occurrences(gs, v)

\* What prime_factorize_optimized(n) returns when the cache is empty.
FreshFactors(n) == prime_factorize_optimized(EmptyCache, 0, n).factors

\* The position of the first occurrence of v in xs.
FirstPos(xs, v) == CHOOSE i \in 1 .. Len(xs) : xs[i] = v /\ \A j \in 1 .. i - 1 : xs[j] # v

\* The numbers held by the entries of the cache.
CachedNumbers == {factor_cache[i].number : i \in 0 .. cache_size - 1}

DistinctCommonDims == Values(common_dims)

\* C1: for every n >= 2 and any cache left by earlier calls, factorize(n) is
\* non-decreasing and the product of its elements is n (the cofactor left
\* when the small-prime pass stops at p*p > n is appended once).
C1_FactorizeIsFactorization ==
    (op = "factorize" /\ arg >= 2) =>
        (NonDecreasing(ret) /\ Product(ret) = arg)

\* C2: factorize(n) computed on an empty cache and wheel_factorize(n) return
\* the same multiset of factors.
C2_WheelAgreesWithTrialDivision ==
    (called = {"prime_factorize_optimized", "wheel_factorize"}) =>
        SameMultiset(ret, wheel_ret)

\* C3: a factorize(n) answered from the cache returns the very sequence a
\* factorize(n) on an empty cache computes, after any sequence of factorize,
\* batch_factorize, precompute_common and clear_cache calls.
C3_CacheHitEqualsFresh ==
    (op = "factorize" /\ hit) => ret = FreshFactors(arg)

C3_Witness ==
    /\ op = "factorize"
    /\ hit
    /\ arg = 12
    /\ Len(ret) > 1
    /\ cache_size > 1

\* A factorize of a number no entry holds, made on a full cache.
FullCacheMiss ==
    /\ cache_size = MAX_CACHE_SIZE
    /\ op' = "factorize"
    /\ arg' > 1
    /\ arg' \notin CachedNumbers

\* C4: the number of cache entries stays between 0 and MAX_CACHE_SIZE, and a
\* factorize of an uncached number on a full cache leaves the cache as it
\* was and still returns the factor sequence of the number.
C4_CacheBounded ==
    /\ [](cache_size >= 0 /\ cache_size <= MAX_CACHE_SIZE)
    /\ [][FullCacheMiss =>
            /\ factor_cache' = factor_cache
            /\ cache_size' = cache_size
            /\ ~hit'
            /\ ret' = FreshFactors(arg')]_vars

C4_Witness ==
    /\ cache_size = MAX_CACHE_SIZE
    /\ op = "factorize"
    /\ arg > 1
    /\ arg \notin CachedNumbers
    /\ ret = FreshFactors(arg)
    /\ ret # <<>>

\* C5 as stated: from an empty cache, precompute_common_dimensions() leaves
\* get_cache_stats() a size of at least the number of distinct values of
\* common_dims.
C5_SizeAtLeastDistinctDims ==
    [][(cache_size = 0 /\ op' = "precompute_common") =>
          get_cache_stats(cache_size').size >= Cardinality(DistinctCommonDims)]_vars

\* C5 amended: from an empty cache, precompute_common_dimensions() leaves
\* get_cache_stats() a size of at least the number of distinct values of
\* common_dims that are greater than 1 (the value 1 is never cached).
C5_SizeAtLeastDistinctDimsAboveOne ==
    [][(cache_size = 0 /\ op' = "precompute_common") =>
          /\ get_cache_stats(cache_size').size >=
                 Cardinality({d \in DistinctCommonDims : d > 1})
          /\ ret' = get_cache_stats(cache_size').size]_vars

C5_Witness ==
    /\ op = "precompute_common"
    /\ factor_cache[0].number = common_dims[2]
    /\ cache_size = Cardinality({d \in DistinctCommonDims : d > 1})
    /\ CachedNumbers = {d \in DistinctCommonDims : d > 1}

\* C6: batch_factorize(xs) returns as many sequences as xs has elements, the
\* one at index i being factorize(xs[i]), and handles the inputs in index
\* order (the entries it adds to the cache are in the order of the inputs).
C6_BatchIsPointwise ==
    [][op' = "batch_factorize" =>
          /\ Len(ret') = Len(arg')
          /\ \A i \in 1 .. Len(arg') : ret'[i] = FreshFactors(arg'[i])
          /\ \A i, j \in cache_size .. cache_size' - 1 :
                i < j => /\ factor_cache'[i].number \in Values(arg')
                         /\ factor_cache'[j].number \in Values(arg')
                         /\ FirstPos(arg', factor_cache'[i].number)
                              < FirstPos(arg', factor_cache'[j].number)]_vars

C6_Witness ==
    /\ op = "batch_factorize"
    /\ Len(arg) >= 2
    /\ arg[1] = 12
    /\ arg[2] = 12
    /\ ret[1] = ret[2]
    /\ ret[1] # <<>>

\* C7: for every n >= 2, wheel_factorize(n) is the prime factorization of n:
\* every element is prime (the cofactor appended after the candidate loop
\* included), the elements are non-decreasing and their product is n.
C7_WheelIsPrimeFactorization ==
    ("wheel_factorize" \in called /\ arg >= 2) =>
        /\ \A i \in 1 .. Len(wheel_ret) : IsPrime(wheel_ret[i])
        /\ NonDecreasing(wheel_ret)
        /\ Product(wheel_ret) = arg

\* C8: isqrt(n) returns floor(sqrt(n)) for every n of the unsigned word,
\* UINT_MAX included, without x + 1 or x + n/x wrapping around and without
\* dividing by zero.
C8_IsqrtIsFloorSqrt ==
    (op = "isqrt") =>
        /\ ~ret.trap
        /\ ~ret.wrapped
        /\ ~ret.div0
        /\ ret.value * ret.value <= arg
        /\ arg \div (ret.value + 1) < ret.value + 1

\* A state no serial execution reaches: more entries counted than the
\* cache has, an entry stored past its end, or two entries with one number.
Unsafe ==
    \/ cache_size > MAX_CACHE_SIZE
    \/ overrun # <<>>
    \/ \E i, j \in 0 .. cache_size - 1 :
          /\ i < j
          /\ j \in CacheIndex
          /\ factor_cache[i].number = factor_cache[j].number

\* C9: two threads calling factorize reach such states, and only through
\* calls that overlap: both pass the size check with one free slot, one
\* entry is stored at index MAX_CACHE_SIZE and cache_size ends above the
\* capacity, or both miss the same number and store it twice.
C9_UnsafeOnlyWhenOverlapping == Unsafe => overlap

C9_Witness ==
    /\ \A t \in Threads : pc[t] = "done"
    /\ overlap
    /\ cache_size = MAX_CACHE_SIZE + 1
    /\ Len(overrun) = 1
    /\ overrun[1].index = MAX_CACHE_SIZE

\* C10: in a single thread no two cache entries hold the same number, an
\* entry once written stays as it is until clear_cache, and a repeated
\* factorize or a repeated precompute leaves the cache size unchanged.
C10_NoDuplicateEntries ==
    /\ [](\A i, j \in 0 .. cache_size - 1 :
            factor_cache[i].number = factor_cache[j].number => i = j)
    /\ [][/\ op' # "clear_cache" =>
               /\ cache_size' >= cache_size
               /\ \A i \in 0 .. cache_size - 1 : factor_cache'[i] = factor_cache[i]
          /\ (op = "factorize" /\ op' = "factorize" /\ arg' = arg) =>
               cache_size' = cache_size
          /\ (op = "precompute_common" /\ op' = "precompute_common") =>
               cache_size' = cache_size]_vars

C10_Witness ==
    /\ op = "precompute_common"
    /\ cache_size = Cardinality({d \in DistinctCommonDims : d > 1}) + 1
    /\ factor_cache[cache_size - 1].number = 5
    /\ factor_cache[0].number = common_dims[2]

====
